---------------------------- MODULE Spec2Model ----------------------------
(***************************************************************************)
(* Model of the DockerExecutor class (src/src/DockerExecutor.class.ts) and *)
(* of the SpawnContainer, SendTTYInput and StopAndDestroyContainer skills  *)
(* that drive it (src/unnamed/part_000).                                   *)
(*                                                                         *)
(* Node runs one callback at a time: every action below is one callback    *)
(* (an event handler, a timer, or the continuation of an await) run to its *)
(* next await.  The container runtime, the duplex stream, the keyboard      *)
(* and the callers are the environment.                                    *)
(*                                                                         *)
(* Strings are sequences of one-character strings, so that includes,       *)
(* startsWith, trim, slice and length are computed on the characters.      *)
(***************************************************************************)
EXTENDS Integers, Sequences, FiniteSets, Bags, TLC

(***************************************************************************)
(* Bounds of the model.                                                    *)
(***************************************************************************)
\* SpawnContainer invocations; call k creates container k and attaches stream k
MaxCalls == 2
\* chunks the streams deliver in one behaviour
MaxChunks == 2
\* stop() invocations in one behaviour
MaxStops == 1
\* keyboard data events in one behaviour
MaxKeys == 4
\* failures of the runtime in one behaviour
MaxFaults == 1
\* chunks the streams deliver in one behaviour of SpecBuffer
BufferChunks == 3
\* prompts the shells print in one behaviour of Spec and SpecStop
MaxPrompts == 1
\* sessions in one behaviour of SpecReady
MaxSessions == 1
\* stdin data events of a behaviour in which the STATUS command is typed
MaxTyped == 9
\* termination signals and uncaught failures of a behaviour
MaxSignals == 2
\* invocations of SendTTYInput of a behaviour
MaxInputs == 2

(***************************************************************************)
(* Program constants.                                                      *)
(***************************************************************************)
\* if (this._buffer.length > 10000)
BufferCeiling == 10000
\* this._buffer.slice(-5000)
BufferKeep == 5000
\* data.trim().length > 10
SubstantialLen == 10

Calls == 1..MaxCalls
NoContainer == 0
NoStream == 0
NoResolve == 0

(***************************************************************************)
(* Text.                                                                   *)
(***************************************************************************)
Fill(c, n) == [i \in 1..n |-> c]

\* String.prototype.includes
Includes(s, p) ==
    \E i \in 1..(Len(s) - Len(p) + 1) : \A j \in 1..Len(p) : s[i + j - 1] = p[j]

StartsWith(s, p) == Len(s) >= Len(p) /\ SubSeq(s, 1, Len(p)) = p

Whitespace == {" ", "\t", "\n", "\r", "\f"}
LineTerminators == {"\n", "\r"}

\* String.prototype.trim
RECURSIVE TrimStart(_, _)
TrimStart(s, i) == IF i <= Len(s) /\ s[i] \in Whitespace THEN TrimStart(s, i + 1) ELSE i
RECURSIVE TrimEnd(_, _)
TrimEnd(s, i) == IF i >= 1 /\ s[i] \in Whitespace THEN TrimEnd(s, i - 1) ELSE i
Trim(s) == SubSeq(s, TrimStart(s, 1), TrimEnd(s, Len(s)))

\* String.prototype.slice(-n)
SliceLast(s, n) == IF Len(s) <= n THEN s ELSE SubSeq(s, Len(s) - n + 1, Len(s))

\* /^[{"].*stream.*true.*[}"]$/ on a trimmed string: "." matches no line
\* terminator, so the whole string is one line
MatchesStreamTrue(t) ==
    /\ Len(t) >= 2
    /\ t[1] \in {"{", "\""}
    /\ t[Len(t)] \in {"}", "\""}
    /\ \A i \in 1..Len(t) : t[i] \notin LineTerminators
    /\ \E i \in 2..(Len(t) - 1) :
          /\ i + 5 <= Len(t) - 1
          /\ SubSeq(t, i, i + 5) = <<"s", "t", "r", "e", "a", "m">>
          /\ \E j \in (i + 6)..(Len(t) - 4) :
                SubSeq(t, j, j + 3) = <<"t", "r", "u", "e">>

Q == "\""
MetadataMarkers ==
    { <<Q, "s", "t", "r", "e", "a", "m", Q, ":">>,
      <<Q, "h", "i", "j", "a", "c", "k", Q, ":">>,
      <<Q, "s", "t", "d", "e", "r", "r", Q, ":">>,
      <<Q, "s", "t", "d", "i", "n", Q, ":">>,
      <<Q, "s", "t", "d", "o", "u", "t", Q, ":">>,
      <<"s", "t", "r", "e", "a", "m", ":", "t", "r", "u", "e">>,
      <<"h", "i", "j", "a", "c", "k", ":", "t", "r", "u", "e">>,
      <<"s", "t", "d", "i", "n", ":", "t", "r", "u", "e">>,
      <<"s", "t", "d", "o", "u", "t", ":", "t", "r", "u", "e">>,
      <<"s", "t", "d", "e", "r", "r", ":", "t", "r", "u", "e">> }

\* const isDockerMetadata = ...
IsDockerMetadata(data) ==
    \/ \E m \in MetadataMarkers : Includes(data, m)
    \/ StartsWith(data, <<"{">>) /\ Includes(data, <<Q, ":", "t", "r", "u", "e", "}">>)
    \/ Includes(data, <<"{", Q>>) /\ Includes(data, <<Q, ":", "t", "r", "u", "e">>)
    \/ MatchesStreamTrue(Trim(data))

\* const hasPrompt = ...
HasPrompt(data) ==
    \/ Includes(data, <<"r", "o", "o", "t", "@">>)
    \/ Includes(data, <<"#", " ">>)
    \/ Includes(data, <<"$", " ">>)

\* const hasOutput = data.trim().length > 10 && !isDockerMetadata
HasOutput(data) == Len(Trim(data)) > SubstantialLen /\ ~IsDockerMetadata(data)

\* const hasNewline = data.includes('\n')
HasNewline(data) == Includes(data, <<"\n">>)

\* variant of SignalsReady: the characters that are not whitespace are
\* counted, not the length of the trimmed text
SignalsReadyDense(data) ==
    \/ HasPrompt(data)
    \/ /\ Cardinality({i \in 1..Len(data) : data[i] \notin Whitespace}) > SubstantialLen
       /\ ~IsDockerMetadata(data)
       /\ HasNewline(data)

\* if (hasPrompt || (hasOutput && hasNewline))
SignalsReady(data) == HasPrompt(data) \/ (HasOutput(data) /\ HasNewline(data))


(***************************************************************************)
(* The chunks the streams deliver, and the handler's tests on each of      *)
(* them, evaluated once.                                                   *)
(***************************************************************************)
\* "root@c:/# ": a shell prompt
PromptChunk == <<"r", "o", "o", "t", "@", "c", ":", "/", "#", " ">>
\* {"stream":true}root@ : runtime metadata that also holds a prompt fragment
MetaPromptChunk ==
    <<"{", Q, "s", "t", "r", "e", "a", "m", Q, ":", "t", "r", "u", "e", "}",
      "r", "o", "o", "t", "@">>
\* "hi": real output, no prompt, not substantial
ShortChunk == <<"h", "i">>
\* "hello world\n": substantial output with a line break
OutputChunk == <<"h", "e", "l", "l", "o", " ", "w", "o", "r", "l", "d", "\n">>

\* "hello world!": substantial output with no line break
LongLineChunk == <<"h", "e", "l", "l", "o", " ", "w", "o", "r", "l", "d", "!">>
\* "hi\n": a line break, not substantial
ShortLineChunk == <<"h", "i", "\n">>

SmallChunks ==
    {PromptChunk, MetaPromptChunk, ShortChunk, OutputChunk, LongLineChunk, ShortLineChunk}
BigChunks == {Fill("a", 4000), Fill("b", 6000), Fill("c", 10001)}
Chunks == SmallChunks \cup BigChunks

\* isDockerMetadata, data.trim().length > 0 and the readiness test, per chunk
IsMetadata == [c \in Chunks |-> IsDockerMetadata(c)]
IsVisible == [c \in Chunks |-> Len(Trim(c)) > 0]
IsReadySignal == [c \in Chunks |-> SignalsReady(c)]


(***************************************************************************)
(* State.                                                                  *)
(***************************************************************************)
VARIABLES
    \* DockerExecutor fields
    container,      \* this.container: NoContainer (null) or the container's id
    ttyStream,      \* this.ttyStream: NoStream (undefined) or the stream's id
    buffer,         \* this._buffer
    isFirstData,    \* this.isFirstData
    shouldStop,     \* this.shouldStop
    readyPromise,   \* this.readyPromise: the id of the promise (index in fires)
    readyResolve,   \* this.readyResolve: NoResolve (null) or the promise it resolves
    imageName,      \* this.imageName
    isCleaningUp,   \* the flag of setupProcessSignals' closure
    \* host terminal
    status,         \* the status line: NoStatus when cleared, else the message shown
    rawMode,        \* stdin.isRaw
    stdinFlowing,   \* stdin resumed (TRUE) or paused (FALSE)
    exited,         \* process.exit() was called
    listeners,      \* the stdin 'data' listeners, each with its closure state
    \* container runtime
    containers,     \* container id -> "none" | "created" | "running" | "stopped" | "removed"
    streams,        \* stream id -> "none" | "open" | "ended"
    errored,        \* streams that emitted 'error'
    writeEnded,     \* streams whose writable side was ended by end()
    \* continuations
    call,           \* the SpawnContainer invocations
    iife,           \* the fire-and-forget async blocks of runContainer
    tasks,          \* the destroyContainer() calls in flight, with what follows them
    stopTimers,     \* pending setTimeout(clearStatus, 2000) of stop()
    \* history
    fires,          \* promise id -> number of times its resolve was called
    echoed,         \* number of chunks written to the host terminal
    destroys,       \* container id -> destroyContainer() calls made while it was this.container
    resets,         \* stream id -> resetState() calls made by that stream's handlers
    stopped,        \* <<stream, container>> held when stop() was called on a live stream
    nIntr,          \* number of interrupt bytes handled
    written,        \* stream id -> the bag of the data passed to its write()
    cleanups,       \* number of times the body of performCleanup was entered
    typed,          \* the stdin data events since the last listener was added
    handled,        \* the commands handleInternalCommand() was called with
    used            \* what the environment did so far: chunks, stops, keys, faults,
                    \* signals, inputs

vars == <<container, ttyStream, buffer, isFirstData, shouldStop, readyPromise,
          readyResolve, imageName, status, rawMode, stdinFlowing, listeners,
          containers, streams, errored, writeEnded, call, iife, tasks, stopTimers,
          fires, echoed, destroys, resets, stopped, nIntr, used, isCleaningUp,
          exited, written, cleanups, typed, handled>>

\* the status line's message, with the number it shows (the buffer size of
\* STATUS); the other values the code interpolates in a message (the image
\* name, the terminal's size, the unknown command) are left out of the text
Message(text, size) == [text |-> text, size |-> size]
NoStatus == Message("", 0)

DefaultImage == "ubuntu:latest"
OtherImage == "alpine:latest"
NoImage == ""

AlreadyActive == "DockerExecutor is still managing an active container. End the current session first."
Spawned == "Container spawned successfully"

IdleCall == [pc |-> "idle", failedAt |-> "none", awaited |-> 0, tgt |-> NoContainer,
             image |-> NoImage, result |-> "none"]
IdleIife == [pc |-> "off", awaited |-> 0, step |-> 0]

Init ==
    /\ container = NoContainer
    /\ ttyStream = NoStream
    /\ buffer = <<>>
    /\ isFirstData = TRUE
    /\ shouldStop = FALSE
    /\ readyPromise = 1
    /\ readyResolve = 1
    /\ fires = <<0>>
    /\ imageName = DefaultImage
    /\ status = NoStatus
    /\ rawMode = FALSE
    /\ stdinFlowing = FALSE
    /\ listeners = <<>>
    /\ containers = [k \in Calls |-> "none"]
    /\ streams = [k \in Calls |-> "none"]
    /\ errored = {}
    /\ writeEnded = {}
    /\ call = [k \in Calls |-> IdleCall]
    /\ iife = [k \in Calls |-> IdleIife]
    /\ tasks = {}
    /\ stopTimers = 0
    /\ echoed = 0
    /\ destroys = [k \in Calls |-> 0]
    /\ resets = [k \in Calls |-> 0]
    /\ stopped = {}
    /\ nIntr = 0
    /\ isCleaningUp = FALSE
    /\ exited = FALSE
    /\ written = [k \in Calls |-> EmptyBag]
    /\ cleanups = 0
    /\ typed = <<>>
    /\ handled = <<>>
    /\ used = [chunks |-> 0, stops |-> 0, keys |-> 0, faults |-> 0, signals |-> 0,
               inputs |-> 0]

(***************************************************************************)
(* The handlers are functions from the state they read and write (the      *)
(* executor's fields, the host terminal, the calls in flight) to that      *)
(* state after the handler: This is the state now, Set(st) makes st the    *)
(* next state.                                                             *)
(***************************************************************************)
This ==
    [container |-> container, ttyStream |-> ttyStream, buffer |-> buffer,
     isFirstData |-> isFirstData, shouldStop |-> shouldStop,
     readyPromise |-> readyPromise, readyResolve |-> readyResolve,
     imageName |-> imageName, status |-> status, rawMode |-> rawMode,
     stdinFlowing |-> stdinFlowing, listeners |-> listeners,
     writeEnded |-> writeEnded, tasks |-> tasks, stopTimers |-> stopTimers,
     fires |-> fires, echoed |-> echoed, destroys |-> destroys,
     resets |-> resets, stopped |-> stopped, nIntr |-> nIntr,
     isCleaningUp |-> isCleaningUp, exited |-> exited, written |-> written,
     cleanups |-> cleanups, typed |-> typed, handled |-> handled]

Set(st) ==
    /\ container' = st.container
    /\ ttyStream' = st.ttyStream
    /\ buffer' = st.buffer
    /\ isFirstData' = st.isFirstData
    /\ shouldStop' = st.shouldStop
    /\ readyPromise' = st.readyPromise
    /\ readyResolve' = st.readyResolve
    /\ imageName' = st.imageName
    /\ status' = st.status
    /\ rawMode' = st.rawMode
    /\ stdinFlowing' = st.stdinFlowing
    /\ listeners' = st.listeners
    /\ writeEnded' = st.writeEnded
    /\ tasks' = st.tasks
    /\ stopTimers' = st.stopTimers
    /\ fires' = st.fires
    /\ echoed' = st.echoed
    /\ destroys' = st.destroys
    /\ resets' = st.resets
    /\ stopped' = st.stopped
    /\ nIntr' = st.nIntr
    /\ isCleaningUp' = st.isCleaningUp
    /\ exited' = st.exited
    /\ written' = st.written
    /\ cleanups' = st.cleanups
    /\ typed' = st.typed
    /\ handled' = st.handled

(***************************************************************************)
(* DockerExecutor methods.                                                 *)
(***************************************************************************)
\* updateStatus(message)
UpdateStatus(st, message) == [st EXCEPT !.status = Message(message, 0)]

\* clearStatus()
ClearStatus(st) == [st EXCEPT !.status = NoStatus]

\* isReady()
IsReady(st) == st.container = NoContainer /\ st.ttyStream = NoStream

\* whether the resolve of promise p was called
Resolved(p) == p \in DOMAIN fires /\ fires[p] > 0

\* resetState()
ResetState(st) ==
    [st EXCEPT !.container = NoContainer,
               !.ttyStream = NoStream,
               !.buffer = <<>>,
               !.isFirstData = TRUE,
               !.shouldStop = FALSE,
               !.fires = Append(st.fires, 0),
               !.readyPromise = Len(st.fires) + 1,
               !.readyResolve = Len(st.fires) + 1]

\* this.ttyStream?.end()
EndStream(st) ==
    IF st.ttyStream = NoStream THEN st
    ELSE [st EXCEPT !.writeEnded = @ \cup {st.ttyStream}]

\* this.ttyStream?.write(data)
Write(st, data) ==
    IF st.ttyStream = NoStream THEN st
    ELSE [st EXCEPT !.written[st.ttyStream] = @ (+) SetToBag({data})]

\* variant of SendInput: nothing is written
SendInputNever(st, command) == st

\* sendInput(command)
SendInput(st, command) == Write(st, command)

\* stream s is attached and has emitted neither 'end' nor 'error'
Live(s) == s # NoStream /\ streams[s] = "open" /\ s \notin errored

\* stop()
Stop(st) ==
    EndStream([st EXCEPT !.shouldStop = TRUE,
                         !.status = Message("Stop command received - shutting down...", 0),
                         !.stopTimers = @ + 1,
                         !.stopped = IF Live(st.ttyStream)
                                      THEN @ \cup {<<st.ttyStream, st.container>>}
                                      ELSE @])

\* variant of AppendToBuffer: the chunk is put before what the buffer holds
AppendBefore(buf, data) ==
    LET joined == data \o buf
    IN  IF Len(joined) > BufferCeiling THEN SliceLast(joined, BufferKeep) ELSE joined

\* variant of AppendToBuffer: the append without the cut
AppendNoCut(buf, data) == buf \o data

\* variant of AppendToBuffer: the cut made before the append
AppendCutBefore(buf, data) ==
    IF Len(buf \o data) > BufferCeiling THEN SliceLast(buf, BufferKeep) \o data ELSE buf \o data

\* this._buffer += data; if (this._buffer.length > 10000) this._buffer = this._buffer.slice(-5000)
AppendToBuffer(buf, data) ==
    LET joined == buf \o data
    IN  IF Len(joined) > BufferCeiling THEN SliceLast(joined, BufferKeep) ELSE joined

\* variant of FireReady: the resolve function is kept after the call
FireReadyKeep(st) == [st EXCEPT !.fires[st.readyResolve] = @ + 1]

\* this.readyResolve(); this.readyResolve = null
FireReady(st) ==
    [st EXCEPT !.fires[st.readyResolve] = @ + 1, !.readyResolve = NoResolve]

\* the readiness check of the 'data' handler
CheckReady(st, data) ==
    IF st.readyResolve # NoResolve /\ IsReadySignal[data] THEN FireReady(st) ELSE st

\* variant of OnData: metadata is handled as output
OnDataKeep(st, data) ==
    CheckReady([st EXCEPT !.isFirstData = (@ /\ ~IsVisible[data]),
                          !.echoed = @ + 1,
                          !.buffer = AppendToBuffer(@, data)],
               data)

\* the stream's 'data' handler
OnData(st, data) ==
    IF IsMetadata[data]
    THEN st
    ELSE CheckReady([st EXCEPT !.isFirstData = (@ /\ ~IsVisible[data]),
                               !.echoed = @ + 1,
                               !.buffer = AppendToBuffer(@, data)],
                    data)

\* restoreTerminal()
RestoreTerminal(st) ==
    [ClearStatus(st) EXCEPT !.rawMode = FALSE, !.stdinFlowing = FALSE]

\* a call of destroyContainer(): updateStatus('Destroying container...'), then the
\* ping is awaited; id names the handler that awaits the call
StartDestroy(st, id) ==
    [st EXCEPT !.tasks = @ \cup {[id |-> id, pc |-> "ping", tgt |-> NoContainer]},
               !.status = Message("Destroying container...", 0),
               !.destroys[st.container] = @ + 1]

\* restoreTerminal(); if (this.container) destroyContainer() then resetState()
\* else resetState(): the tail of the 'end' and 'error' handlers, of the
\* interrupt handling and of runContainer's catch
\* resetState() called by the handler named id
ResetBy(st, id) ==
    LET r == ResetState(st)
    IN  IF id[1] \in {"end", "error"} THEN [r EXCEPT !.resets[id[2]] = @ + 1] ELSE r

\* variant of Teardown: the state is reset without destroying the container
TeardownNoDestroy(st, id) == ResetBy(RestoreTerminal(st), id)

Teardown(st, id) ==
    LET r == RestoreTerminal(st)
    IN  IF r.container # NoContainer THEN StartDestroy(r, id) ELSE ResetBy(r, id)

\* process.exit(): the 'exit' handler restores the terminal, the process ends
Exit(st) == [RestoreTerminal(st) EXCEPT !.exited = TRUE]

\* variant of PerformCleanup: the body runs whatever the flag says
PerformCleanupAgain(st) ==
    LET r == RestoreTerminal(ClearStatus([st EXCEPT !.isCleaningUp = TRUE,
                                                   !.cleanups = @ + 1]))
    IN  IF r.container # NoContainer
        THEN StartDestroy(r, <<"signal", r.cleanups>>)
        ELSE Exit(r)

\* variant of PerformCleanup: the terminal is not restored before the destroy
PerformCleanupRaw(st) ==
    IF st.isCleaningUp THEN st
    ELSE LET r == ClearStatus([st EXCEPT !.isCleaningUp = TRUE, !.cleanups = @ + 1])
         IN  IF r.container # NoContainer
             THEN StartDestroy(r, <<"signal", r.cleanups>>)
             ELSE Exit(r)

\* performCleanup(signal) up to its await of destroyContainer(), or to
\* process.exit(0) when no container is held
PerformCleanup(st) ==
    IF st.isCleaningUp THEN st
    ELSE LET r == RestoreTerminal(ClearStatus([st EXCEPT !.isCleaningUp = TRUE,
                                                        !.cleanups = @ + 1]))
         IN  IF r.container # NoContainer
             THEN StartDestroy(r, <<"signal", r.cleanups>>)
             ELSE Exit(r)

(***************************************************************************)
(* runNewContainer / runContainer / createContainer, one action per await. *)
(***************************************************************************)
\* the runtime failed (a call rejected, a connection lost): one more fault
Fault(failed) == IF failed THEN [used EXCEPT !.faults = @ + 1] ELSE used

\* the skill's call of ready() once runNewContainer() has returned
AwaitReadyOf(c, st) == [c EXCEPT !.pc = "awaitReady", !.awaited = st.readyPromise]

\* runContainer's catch block, entered by call k from the step named at
Catch(k, at) ==
    LET st == Teardown(ClearStatus(This), <<"catch", k>>)
        c == [call[k] EXCEPT !.failedAt = at]
    IN  /\ Set(st)
        /\ call' = [call EXCEPT ![k] = IF <<"catch", k>> \in {t.id : t \in st.tasks}
                                        THEN [c EXCEPT !.pc = "destroy"]
                                        ELSE AwaitReadyOf(c, st)]

\* SpawnContainer: runNewContainer(imageName?) up to the ping of createContainer
Spawn(k, img) ==
    /\ call[k].pc = "idle"
    \* the calls are numbered in the order they are made
    /\ \A j \in 1..(k - 1) : call[j].pc # "idle"
    /\ IF ~IsReady(This)
       THEN /\ call' = [call EXCEPT ![k].pc = "done", ![k].failedAt = "guard",
                                    ![k].result = AlreadyActive]
            /\ Set(This)
       ELSE LET st == [This EXCEPT !.imageName = IF img # NoImage THEN img ELSE @]
            IN  /\ Set(UpdateStatus(st, "Checking Docker Engine availability..."))
                /\ call' = [call EXCEPT ![k].pc = "ping", ![k].image = st.imageName]
    /\ UNCHANGED <<containers, streams, errored, iife, used>>

\* createContainer: docker.ping() answered
PingDone(k, ok) ==
    /\ call[k].pc = "ping"
    /\ IF ok
       THEN /\ Set(UpdateStatus(This, "Pulling image..."))
            /\ call' = [call EXCEPT ![k].pc = "pull"]
       ELSE Catch(k, "ping")
    /\ UNCHANGED <<containers, streams, errored, iife>>
    /\ used' = Fault(~ok)

\* createContainer: docker.pull() finished
PullDone(k, ok) ==
    /\ call[k].pc = "pull"
    /\ IF ok
       THEN /\ Set(UpdateStatus(This, "Creating container..."))
            /\ call' = [call EXCEPT ![k].pc = "create"]
       ELSE Catch(k, "pull")
    /\ UNCHANGED <<containers, streams, errored, iife>>
    /\ used' = Fault(~ok)

\* createContainer: docker.createContainer() answered; runContainer goes on to
\* this.container?.start()
CreateDone(k, ok) ==
    /\ call[k].pc = "create"
    /\ IF ok
       THEN /\ containers' = [containers EXCEPT ![k] = "created"]
            /\ Set(UpdateStatus([This EXCEPT !.container = k], "Starting container..."))
            /\ call' = [call EXCEPT ![k].pc = "start", ![k].tgt = k]
       ELSE /\ Catch(k, "create")
            /\ UNCHANGED containers
    /\ UNCHANGED <<streams, errored, iife>>
    /\ used' = Fault(~ok)

\* setupTTYSTDIN(), the launch of the async block, and runContainer's return
Attached(k, st) ==
    LET r == [st EXCEPT !.rawMode = TRUE, !.stdinFlowing = TRUE, !.typed = <<>>,
                        !.listeners = Append(@, [isInCommandMode |-> FALSE,
                                                 commandBuffer |-> <<>>])]
    IN  /\ Set(r)
        /\ iife' = [iife EXCEPT ![k].pc = "delay1000"]
        /\ call' = [call EXCEPT ![k] = AwaitReadyOf(@, r)]

\* container.start() answered; setupTTYStream goes on to this.container?.attach()
StartDone(k, ok) ==
    /\ call[k].pc = "start"
    /\ IF ok /\ containers[call[k].tgt] \in {"created", "stopped"}
       THEN /\ containers' = [containers EXCEPT ![call[k].tgt] = "running"]
            /\ LET st == UpdateStatus(This, "Container started - TTY session active")
               IN  IF st.container = NoContainer
                   THEN Attached(k, [st EXCEPT !.ttyStream = NoStream])
                   ELSE /\ Set(st)
                        /\ call' = [call EXCEPT ![k].pc = "attach", ![k].tgt = st.container]
                        /\ UNCHANGED iife
       ELSE /\ Catch(k, "start")
            /\ UNCHANGED <<containers, iife>>
    /\ UNCHANGED <<streams, errored>>
    /\ used' = Fault(~ok)

\* container.attach() answered: the stream is this.ttyStream and its handlers are set
AttachDone(k, ok) ==
    /\ call[k].pc = "attach"
    /\ IF ok /\ containers[call[k].tgt] # "removed"
       THEN /\ streams' = [streams EXCEPT ![k] = "open"]
            /\ Attached(k, [This EXCEPT !.ttyStream = k])
       ELSE /\ Catch(k, "attach")
            /\ UNCHANGED <<streams, iife>>
    /\ UNCHANGED <<containers, errored>>
    /\ used' = Fault(~ok)

\* the skill: await dockerExecutor.ready() resolves
SkillReady(k) ==
    /\ call[k].pc = "awaitReady"
    /\ Resolved(call[k].awaited)
    /\ Set(UpdateStatus(This, Spawned))
    /\ call' = [call EXCEPT ![k].pc = "done", ![k].result = Spawned]
    /\ UNCHANGED <<containers, streams, errored, iife, used>>

(***************************************************************************)
(* destroyContainer(), one action per await, and the handler's resetState. *)
(***************************************************************************)
Moved(t, pc, tgt) == [t EXCEPT !.pc = pc, !.tgt = tgt]

Retask(st, t, u) == [st EXCEPT !.tasks = (@ \ {t}) \cup {u}]

\* the call on this.container that follows in destroyContainer: none when
\* this.container is null ('Container destroyed', then the delay)
NextCall(st, t, pc) ==
    IF st.container = NoContainer
    THEN UpdateStatus(Retask(st, t, Moved(t, "delay", NoContainer)), "Container destroyed")
    ELSE Retask(st, t, Moved(t, pc, st.container))

\* destroyContainer: checkDockerAvailable() answered
DestroyPing(t, ok) ==
    /\ t \in tasks /\ t.pc = "ping"
    /\ IF ok
       THEN Set(NextCall(This, t, "stop"))
       ELSE Set(UpdateStatus(Retask(This, t, Moved(t, "delay", NoContainer)),
                             "Docker not available - container may already be cleaned up"))
    /\ UNCHANGED <<containers, streams, errored, call, iife>>
    /\ used' = Fault(~ok)

\* destroyContainer: container.stop() answered (r: "answer" by the container's
\* state, "lost" a lost connection, "error" any other failure)
DestroyStop(t, r) ==
    /\ t \in tasks /\ t.pc = "stop"
    /\ CASE r = "answer" /\ containers[t.tgt] = "running" ->
              /\ containers' = [containers EXCEPT ![t.tgt] = "stopped"]
              /\ Set(NextCall(This, t, "remove"))
         [] r = "answer" /\ containers[t.tgt] \in {"created", "stopped"} ->
              \* 304: already stopped
              /\ Set(NextCall(This, t, "remove"))
              /\ UNCHANGED containers
         [] r = "lost" ->
              /\ Set(UpdateStatus(Retask(This, t, Moved(t, "delay", NoContainer)),
                                  "Docker connection lost - container cleanup skipped"))
              /\ UNCHANGED containers
         [] OTHER ->
              \* 404 (removed) or another failure: thrown to the outer catch
              /\ Set(Retask(This, t, Moved(t, "delay", NoContainer)))
              /\ UNCHANGED containers
    /\ UNCHANGED <<streams, errored, call, iife>>
    /\ used' = Fault(r # "answer")

\* another destroyContainer() call has its remove() of the same container
\* in progress
RemovalInProgress(t) ==
    \E u \in tasks \ {t} : u.pc = "remove" /\ u.tgt = t.tgt

\* destroyContainer: container.remove() answered ("conflict": 409, the
\* removal of the container is already in progress)
DestroyRemove(t, r) ==
    /\ t \in tasks /\ t.pc = "remove"
    /\ r = "conflict" => RemovalInProgress(t)
    /\ CASE r = "answer" /\ containers[t.tgt] \in {"created", "stopped"} ->
              /\ containers' = [containers EXCEPT ![t.tgt] = "removed"]
              /\ Set(UpdateStatus(Retask(This, t, Moved(t, "delay", NoContainer)),
                                  "Container destroyed"))
         [] r = "lost" ->
              /\ Set(UpdateStatus(Retask(This, t, Moved(t, "delay", NoContainer)),
                                  "Docker connection lost during cleanup"))
              /\ UNCHANGED containers
         [] OTHER ->
              \* 409 (running, or removal in progress), 404 or another failure
              /\ Set(Retask(This, t, Moved(t, "delay", NoContainer)))
              /\ UNCHANGED containers
    /\ UNCHANGED <<streams, errored, call, iife>>
    /\ used' = Fault(r \in {"lost", "error"})

\* destroyContainer: the delay is over, clearStatus(), return; the awaiting
\* handler calls resetState(), performCleanup calls process.exit(0)
DestroyDone(t) ==
    /\ t \in tasks /\ t.pc = "delay"
    /\ LET r == ClearStatus([This EXCEPT !.tasks = @ \ {t}])
           st == IF t.id[1] = "signal" THEN Exit(r) ELSE ResetBy(r, t.id)
       IN  /\ Set(st)
           /\ call' = IF t.id[1] = "catch"
                      THEN [call EXCEPT ![t.id[2]] = AwaitReadyOf(@, st)]
                      ELSE call
    /\ UNCHANGED <<containers, streams, errored, iife, used>>

(***************************************************************************)
(* The stream's events and stop().                                         *)
(***************************************************************************)
\* the 'data' event of stream k
StreamData(k, data) ==
    /\ streams[k] = "open"
    /\ k \notin errored
    /\ Set(OnData(This, data))
    /\ used' = [used EXCEPT !.chunks = @ + 1]
    /\ UNCHANGED <<containers, streams, errored, call, iife>>

\* the 'end' event of stream k
StreamEnd(k) ==
    /\ streams[k] = "open"
    /\ k \notin errored
    /\ streams' = [streams EXCEPT ![k] = "ended"]
    /\ Set(Teardown(ClearStatus(This), <<"end", k>>))
    /\ UNCHANGED <<containers, errored, call, iife, used>>

\* the 'error' event of stream k
StreamError(k) ==
    /\ streams[k] # "none"
    /\ k \notin errored
    /\ errored' = errored \cup {k}
    /\ Set(Teardown(ClearStatus(This), <<"error", k>>))
    /\ used' = Fault(TRUE)
    /\ UNCHANGED <<containers, streams, call, iife>>

\* StopAndDestroyContainer: dockerExecutor.stop()
StopSkill ==
    /\ Set(Stop(This))
    /\ used' = [used EXCEPT !.stops = @ + 1]
    /\ UNCHANGED <<containers, streams, errored, call, iife>>

\* the events performCleanup is registered for
Signals == {"SIGINT", "SIGTERM", "SIGQUIT", "SIGHUP"}
Failures == {"uncaughtException", "unhandledRejection"}

\* the process receives a termination signal or an uncaught failure
Signal(event) ==
    /\ Set(PerformCleanup(This))
    /\ used' = [used EXCEPT !.signals = @ + 1]
    /\ UNCHANGED <<containers, streams, errored, call, iife>>

\* parseCarriageReturn(input): input.replace(/\\r/g, '\r')
RECURSIVE ParseCarriageReturn(_)
ParseCarriageReturn(input) ==
    IF Len(input) < 2 THEN input
    ELSE IF input[1] = "\\" /\ input[2] = "r"
    THEN <<"\r">> \o ParseCarriageReturn(SubSeq(input, 3, Len(input)))
    ELSE <<input[1]>> \o ParseCarriageReturn(Tail(input))

\* the SendTTYInput skill up to its delay: if (ttyInput.trim()) updateStatus,
\* sendInput(parsedInput); after the delay the skill returns the buffer
SendTTYInput(ttyInput) ==
    /\ Set(IF Trim(ttyInput) # <<>>
           THEN SendInput(UpdateStatus(This, "Running command"),
                          ParseCarriageReturn(ttyInput))
           ELSE This)
    /\ used' = [used EXCEPT !.inputs = @ + 1]
    /\ UNCHANGED <<containers, streams, errored, call, iife>>

\* stop()'s setTimeout(() => this.clearStatus(), 2000)
StopTimer ==
    /\ stopTimers > 0
    /\ Set(ClearStatus([This EXCEPT !.stopTimers = @ - 1]))
    /\ UNCHANGED <<containers, streams, errored, call, iife, used>>

(***************************************************************************)
(* The async block runContainer launches after the attach.                 *)
(***************************************************************************)
\* number of sendInput() calls of setupTerminalReservation
GeometrySteps == 6

\* the commands setupTerminalReservation() sends, for a terminal of 24 rows
\* and 80 columns (stdout.rows || 24, stdout.columns || 80)
GeometryInputs ==
    <<<<"e", "x", "p", "o", "r", "t", " ", "L", "I", "N", "E", "S", "=", "2", "2", "\r">>,
      <<"e", "x", "p", "o", "r", "t", " ", "C", "O", "L", "U", "M", "N", "S", "=", "8", "0", "\r">>,
      <<"t", "p", "u", "t", " ", "c", "s", "r", " ", "0", " ", "2", "1", "\r">>,
      <<"c", "l", "e", "a", "r", "\r">>,
      <<"t", "p", "u", "t", " ", "c", "u", "p", " ", "0", " ", "0", "\r">>,
      <<"c", "l", "e", "a", "r", "\r">>>>

\* delay(1000) is over: the '\r' is written and this.ready() is awaited
IifeNudge(k) ==
    /\ iife[k].pc = "delay1000"
    /\ Set(Write(UpdateStatus(This, "Getting initial prompt..."), <<"\r">>))
    /\ iife' = [iife EXCEPT ![k].pc = "awaitReady", ![k].awaited = readyPromise]
    /\ UNCHANGED <<containers, streams, errored, call, used>>

\* the awaited promise is resolved: delay(500) starts
IifeReady(k) ==
    /\ iife[k].pc = "awaitReady"
    /\ Resolved(iife[k].awaited)
    /\ iife' = [iife EXCEPT ![k].pc = "delay500"]
    /\ Set(This)
    /\ UNCHANGED <<containers, streams, errored, call, used>>

\* delay(500) is over: setupTerminalReservation() up to its first delay
IifeSetup(k) ==
    /\ iife[k].pc = "delay500"
    /\ IF ttyStream = NoStream
       THEN /\ iife' = [iife EXCEPT ![k].pc = "delay5000"]
            /\ Set(This)
       ELSE /\ iife' = [iife EXCEPT ![k].pc = "geometry", ![k].step = 1]
            /\ Set(SendInput(UpdateStatus(This, "Configuring terminal to reserve status area..."),
                             GeometryInputs[1]))
    /\ UNCHANGED <<containers, streams, errored, call, used>>

\* setupTerminalReservation(): a delay is over, the next sendInput() or the return
IifeGeometry(k) ==
    /\ iife[k].pc = "geometry"
    /\ IF iife[k].step < GeometrySteps
       THEN /\ iife' = [iife EXCEPT ![k].step = @ + 1]
            /\ Set(SendInput(This, GeometryInputs[iife[k].step + 1]))
       ELSE /\ iife' = [iife EXCEPT ![k].pc = "delay5000"]
            /\ Set(UpdateStatus(This, "Terminal configured (reserved 2 bottom lines)"))
    /\ UNCHANGED <<containers, streams, errored, call, used>>

\* delay(5000) is over: if (this.readyResolve) { this.readyResolve(); ... }
IifeFallback(k) ==
    /\ iife[k].pc = "delay5000"
    /\ iife' = [iife EXCEPT ![k].pc = "done"]
    /\ Set(IF readyResolve # NoResolve THEN FireReady(This) ELSE This)
    /\ UNCHANGED <<containers, streams, errored, call, used>>

(***************************************************************************)
(* The keyboard: the stdin 'data' listeners of setupTTYSTDIN.              *)
(***************************************************************************)
\* characters named by their code: 3, 27, 127, 8
ETX == "ETX"
ESC == "ESC"
DEL == "DEL"
BS == "BS"

LowerCase == <<"a", "b", "c", "d", "e", "f", "g", "h", "i", "j", "k", "l", "m",
               "n", "o", "p", "q", "r", "s", "t", "u", "v", "w", "x", "y", "z">>
UpperCase == <<"A", "B", "C", "D", "E", "F", "G", "H", "I", "J", "K", "L", "M",
               "N", "O", "P", "Q", "R", "S", "T", "U", "V", "W", "X", "Y", "Z">>
Range(f) == {f[i] : i \in DOMAIN f}

\* data[0] >= 32 && data[0] <= 126
Printable ==
    Range(LowerCase) \cup Range(UpperCase) \cup
    {" ", "?", "!", "[", "]", "~", "{", "}", ":", "@", "#", "$", "/", Q,
     "0", "1", "2", "3", "4", "5", "6", "7", "8", "9"}

\* String.prototype.toUpperCase
ToUpperCase(s) ==
    [i \in 1..Len(s) |->
        IF s[i] \in Range(LowerCase)
        THEN UpperCase[CHOOSE j \in 1..26 : LowerCase[j] = s[i]]
        ELSE s[i]]

\* '\x1b[24~'
F12 == <<ESC, "[", "2", "4", "~">>

\* variant of Switch: nothing is displayed for the empty command
SwitchSilent(st, command) ==
    CASE command \in {<<"S", "T", "O", "P">>, <<"E", "X", "I", "T">>, <<"Q", "U", "I", "T">>} ->
            Stop(UpdateStatus(st, "Stopping container..."))
      [] command \in {<<"H", "E", "L", "P">>, <<"?">>} ->
            UpdateStatus(st, "Commands: STOP/EXIT/QUIT - Stop container, HELP/? - Show help. Use F12 to enter command mode.")
      [] command = <<"S", "T", "A", "T", "U", "S">> ->
            [st EXCEPT !.status = Message("Container running. Buffer size. TTY active.",
                                          Len(st.buffer))]
      [] command = <<"C", "L", "E", "A", "R">> ->
            UpdateStatus([st EXCEPT !.buffer = <<>>], "Buffer cleared.")
      [] OTHER ->
            IF Trim(command) = <<>>
            THEN st
            ELSE UpdateStatus(st, "Unknown command. Available: STOP, HELP, STATUS, CLEAR")

\* handleInternalCommand(command): the switch
Switch(st, command) ==
    CASE command \in {<<"S", "T", "O", "P">>, <<"E", "X", "I", "T">>, <<"Q", "U", "I", "T">>} ->
            Stop(UpdateStatus(st, "Stopping container..."))
      [] command \in {<<"H", "E", "L", "P">>, <<"?">>} ->
            UpdateStatus(st, "Commands: STOP/EXIT/QUIT - Stop container, HELP/? - Show help. Use F12 to enter command mode.")
      [] command = <<"S", "T", "A", "T", "U", "S">> ->
            [st EXCEPT !.status = Message("Container running. Buffer size. TTY active.",
                                          Len(st.buffer))]
      [] command = <<"C", "L", "E", "A", "R">> ->
            UpdateStatus([st EXCEPT !.buffer = <<>>], "Buffer cleared.")
      [] OTHER ->
            IF Trim(command) = <<>>
            THEN UpdateStatus(st, "Command mode cancelled.")
            ELSE UpdateStatus(st, "Unknown command. Available: STOP, HELP, STATUS, CLEAR")

\* handleInternalCommand(command)
HandleInternalCommand(st, command) ==
    Switch([st EXCEPT !.handled = Append(@, command)], command)

\* the closure state of listener i
SetListener(st, i, mode, text) ==
    [st EXCEPT !.listeners[i] = [isInCommandMode |-> mode, commandBuffer |-> text]]

\* Ctrl+C: end the stream, restore the terminal, destroy the container, reset
Interrupt(st) ==
    Teardown(EndStream(ClearStatus([st EXCEPT !.nIntr = @ + 1])), <<"intr", st.nIntr + 1>>)

\* variant of DropLast: the first character is removed
DropFirst(text) == SubSeq(text, 2, Len(text))

\* commandBuffer.slice(0, -1)
DropLast(text) == SubSeq(text, 1, Len(text) - 1)

\* the 'data' listener i of stdin after its test of Ctrl+C: F12, the command
\* mode, the pass-through
Classify(st, i, data) ==
    LET l == st.listeners[i]
        text == l.commandBuffer
    IN  IF data = F12 THEN SetListener(st, i, TRUE, <<>>)
        ELSE IF l.isInCommandMode
        THEN IF data[1] \in {DEL, BS}
             THEN IF Len(text) > 0
                  THEN SetListener(st, i, TRUE, DropLast(text))
                  ELSE SetListener(st, i, FALSE, <<>>)
             ELSE IF data[1] \in {"\r", "\n"}
             THEN SetListener(HandleInternalCommand(st, ToUpperCase(Trim(text))),
                              i, FALSE, <<>>)
             ELSE IF data[1] \in Printable
             THEN SetListener(st, i, TRUE, text \o data)
             ELSE st
        ELSE Write(st, data)

\* variant of OnKey: Ctrl+C is tested after F12 and the command mode
OnKeyLate(st, i, data) ==
    IF data = F12 \/ st.listeners[i].isInCommandMode THEN Classify(st, i, data)
    ELSE IF data[1] = ETX THEN Interrupt(st)
    ELSE Classify(st, i, data)

\* the 'data' listener i of stdin, given one data event
OnKey(st, i, data) ==
    IF data[1] = ETX THEN Interrupt(st) ELSE Classify(st, i, data)

\* stdin emits 'data': every listener runs, in the order they were added
RECURSIVE EmitKey(_, _, _)
EmitKey(st, i, data) ==
    IF i > Len(st.listeners) THEN st ELSE EmitKey(OnKey(st, i, data), i + 1, data)

Keyboard(data) ==
    /\ stdinFlowing
    /\ Set(EmitKey([This EXCEPT !.typed = Append(@, data)], 1, data))
    /\ used' = [used EXCEPT !.keys = @ + 1]
    /\ UNCHANGED <<containers, streams, errored, call, iife>>

(***************************************************************************)
(* The environment's inputs.                                               *)
(***************************************************************************)
Answers == {"answer", "lost", "error"}

(***************************************************************************)
(* The specifications.  Each is the executor with one part of its          *)
(* environment: the callbacks are the same actions in all of them.         *)
(***************************************************************************)
\* the runtime may fail while the behaviour has faults left
MayFail(failed) == ~failed \/ used.faults < MaxFaults

\* the steps of runNewContainer(): each await answered, well or not
SpawnSteps(images) ==
    \/ \E k \in Calls, img \in images : Spawn(k, img)
    \/ \E k \in Calls, ok \in BOOLEAN : MayFail(~ok) /\ PingDone(k, ok)
    \/ \E k \in Calls, ok \in BOOLEAN : MayFail(~ok) /\ PullDone(k, ok)
    \/ \E k \in Calls, ok \in BOOLEAN : MayFail(~ok) /\ CreateDone(k, ok)
    \/ \E k \in Calls, ok \in BOOLEAN : MayFail(~ok) /\ StartDone(k, ok)
    \/ \E k \in Calls, ok \in BOOLEAN : MayFail(~ok) /\ AttachDone(k, ok)

\* the same steps when the runtime answers well
SpawnWell ==
    \/ \E k \in Calls : Spawn(k, NoImage)
    \/ \E k \in Calls : PingDone(k, TRUE)
    \/ \E k \in Calls : PullDone(k, TRUE)
    \/ \E k \in Calls : CreateDone(k, TRUE)
    \/ \E k \in Calls : StartDone(k, TRUE)
    \/ \E k \in Calls : AttachDone(k, TRUE)

\* the steps of destroyContainer()
DestroySteps ==
    \/ \E t \in tasks, ok \in BOOLEAN : MayFail(~ok) /\ DestroyPing(t, ok)
    \/ \E t \in tasks, r \in Answers : MayFail(r # "answer") /\ DestroyStop(t, r)
    \/ \E t \in tasks, r \in Answers : MayFail(r # "answer") /\ DestroyRemove(t, r)
    \/ \E t \in tasks : DestroyDone(t)

\* the same steps when the runtime answers well
DestroyWell ==
    \/ \E t \in tasks : DestroyPing(t, TRUE)
    \/ \E t \in tasks : DestroyStop(t, "answer")
    \/ \E t \in tasks : DestroyRemove(t, "answer")
    \/ \E t \in tasks : DestroyDone(t)

\* the async block of runContainer
IifeSteps ==
    \/ \E k \in Calls : IifeNudge(k)
    \/ \E k \in Calls : IifeReady(k)
    \/ \E k \in Calls : IifeSetup(k)
    \/ \E k \in Calls : IifeGeometry(k)
    \/ \E k \in Calls : IifeFallback(k)

\* no session, no spawn and no teardown in progress
Quiet ==
    /\ IsReady(This)
    /\ tasks = {}
    /\ \A k \in Calls : call[k].pc \in {"idle", "awaitReady", "done"}

\* n sessions, one after the other, the runtime answering well
SpawnSolo(n) ==
    \/ \E k \in 1..n : Quiet /\ Spawn(k, NoImage)
    \/ \E k \in Calls : PingDone(k, TRUE)
    \/ \E k \in Calls : PullDone(k, TRUE)
    \/ \E k \in Calls : CreateDone(k, TRUE)
    \/ \E k \in Calls : StartDone(k, TRUE)
    \/ \E k \in Calls : AttachDone(k, TRUE)

\* Spawning: invocations at any moment, each step of the runtime answered
\* well or not, the shell's prompt, the stream ending, the teardown.
Next ==
    \/ SpawnSteps({NoImage, OtherImage})
    \/ \E k \in Calls : SkillReady(k)
    \/ DestroySteps
    \/ \E k \in Calls : StreamEnd(k)
    \/ used.chunks < MaxPrompts /\ \E k \in Calls : StreamData(k, PromptChunk)

Spec == Init /\ [][Next]_vars

\* Failing spawns: invocations at any moment, each step of the runtime
\* answered well or not, the teardown of what was created.
NextFail ==
    \/ SpawnSteps({NoImage})
    \/ DestroySteps

SpecFail == Init /\ [][NextFail]_vars

\* Stopping: stop(), 'end' and 'error' of the stream, the teardown, with
\* invocations of spawn at any moment.
NextStop ==
    \/ SpawnWell
    \/ \E k \in Calls : SkillReady(k)
    \/ DestroyWell
    \/ \E k \in Calls : StreamEnd(k)
    \/ \E k \in Calls : MayFail(TRUE) /\ StreamError(k)
    \/ used.stops < MaxStops /\ StopSkill
    \/ StopTimer
    \/ used.chunks < MaxPrompts /\ \E k \in Calls : StreamData(k, PromptChunk)

SpecStop == Init /\ [][NextStop]_vars

\* The stream and the buffer: chunks of every size, the CLEAR command, the
\* reset at the end of the session.
BufferInputs == BigChunks \cup {PromptChunk, MetaPromptChunk}
\* the CLEAR command as typed: F12, the word, enter
BufferKeys == <<F12, <<"c", "l", "e", "a", "r">>, <<"\r">>>>

NextBuffer ==
    \/ SpawnSolo(MaxCalls)
    \/ DestroyWell
    \/ \E k \in Calls : StreamEnd(k)
    \/ used.chunks < BufferChunks /\ \E k \in Calls, c \in BufferInputs : StreamData(k, c)
    \/ used.keys < MaxKeys /\ Keyboard(BufferKeys[(used.keys % Len(BufferKeys)) + 1])

SpecBuffer == Init /\ [][NextBuffer]_vars

\* Readiness: chunks that signal it and chunks that do not, the async block
\* with its fallback.
NextReady ==
    \/ SpawnSolo(MaxSessions)
    \/ \E k \in Calls : SkillReady(k)
    \/ DestroyWell
    \/ IifeSteps
    \/ \E k \in Calls : StreamEnd(k)
    \/ used.chunks < MaxChunks /\ \E k \in Calls, c \in {PromptChunk, OutputChunk, ShortChunk} : StreamData(k, c)

SpecReady == Init /\ [][NextReady]_vars

\* The command mode: F12, two printable characters, backspace and enter in
\* any order, with the end of the stream and the teardown.
KeyInputs == {F12, <<"x">>, <<"y">>, <<DEL>>, <<"\r">>}

NextKeys ==
    \/ SpawnSolo(MaxSessions)
    \/ DestroyWell
    \/ \E k \in Calls : StreamEnd(k)
    \/ used.keys < MaxKeys /\ \E data \in KeyInputs : Keyboard(data)

SpecKeys == Init /\ [][NextKeys]_vars

\* The interrupt: the interrupt byte in pass-through and in command mode,
\* with and without pending text, where no answer of the runtime and no
\* timer of the teardown is withheld for ever.
InterruptKeys == {<<ETX>>, F12, <<"x">>}

NextInterrupt ==
    \/ SpawnSolo(MaxSessions)
    \/ DestroyWell
    \/ \E k \in Calls : StreamEnd(k)
    \/ used.keys < MaxKeys /\ \E data \in InterruptKeys : Keyboard(data)

SpecInterrupt == Init /\ [][NextInterrupt]_vars

LiveInterrupt == SpecInterrupt /\ WF_vars(DestroyWell)

\* The STATUS command as typed, key by key, and the byte that follows it,
\* with the shell's prompt, the end of the stream and the teardown, over the
\* sessions of the process.
StatusScript ==
    <<F12, <<"S">>, <<"T">>, <<"A">>, <<"T">>, <<"U">>, <<"S">>, <<"\r">>, <<"x">>>>

NextStatus ==
    \/ SpawnSolo(MaxCalls)
    \/ DestroyWell
    \/ \E k \in Calls : StreamEnd(k)
    \/ used.chunks < MaxPrompts /\ \E k \in Calls : StreamData(k, PromptChunk)
    \/ used.keys < MaxTyped /\ Keyboard(StatusScript[(used.keys % Len(StatusScript)) + 1])

SpecStatus == Init /\ [][NextStatus]_vars

\* Termination: signals and uncaught failures at any moment of a session and
\* of its teardown, until process.exit().
NextSignal ==
    /\ ~exited
    /\ \/ SpawnSolo(MaxSessions)
       \/ DestroySteps
       \/ \E k \in Calls : StreamEnd(k)
       \/ used.signals < MaxSignals /\ \E event \in Signals \cup Failures : Signal(event)

SpecSignal == Init /\ [][NextSignal]_vars

\* every call destroyContainer() makes to the runtime is answered, well or
\* not, and its timers end, while the process runs
LiveSignal == SpecSignal /\ WF_vars(~exited /\ DestroySteps)

\* Programmatic input: SendTTYInput invoked at any moment, before, during
\* and after a session.
TTYInputs == {<<"l", "s", "\\", "r">>, <<" ">>}

NextInput ==
    \/ SpawnSolo(MaxSessions)
    \/ DestroyWell
    \/ \E k \in Calls : StreamEnd(k)
    \/ used.chunks < MaxPrompts /\ \E k \in Calls : StreamData(k, PromptChunk)
    \/ used.inputs < MaxInputs /\ \E ttyInput \in TTYInputs : SendTTYInput(ttyInput)

SpecInput == Init /\ [][NextInput]_vars

\* Output after the session: the interrupt byte, the teardown with the
\* runtime answering well or not, and the shell's output at any moment its
\* stream is open.
NextIdle ==
    \/ SpawnSolo(MaxSessions)
    \/ DestroySteps
    \/ \E k \in Calls : StreamEnd(k)
    \/ used.chunks < MaxPrompts /\ \E k \in Calls : StreamData(k, PromptChunk)
    \/ used.keys < MaxKeys /\ Keyboard(<<ETX>>)

SpecIdle == Init /\ [][NextIdle]_vars

\* Destruction: the teardowns of the interrupt key and of the 'end' and
\* 'error' handlers of the stream, each step of destroyContainer() answered well or not, a stop()
\* of a container already stopped, a remove() of a container being removed.
NextDestroy ==
    \/ SpawnSolo(MaxSessions)
    \/ DestroySteps
    \/ \E t \in tasks : DestroyRemove(t, "conflict")
    \/ \E k \in Calls : StreamEnd(k)
    \/ \E k \in Calls : MayFail(TRUE) /\ StreamError(k)
    \/ used.keys < MaxKeys /\ Keyboard(<<ETX>>)

SpecDestroy == Init /\ [][NextDestroy]_vars

\* The readiness test of the 'data' handler: chunks of every kind, delivered
\* before the first timer of the session's async block.
HeuristicInputs == SmallChunks

NextHeuristic ==
    \/ SpawnSolo(MaxSessions)
    \/ DestroyWell
    \/ \E k \in Calls : StreamEnd(k)
    \/ used.chunks < MaxChunks /\ \E k \in Calls, c \in HeuristicInputs : StreamData(k, c)

SpecHeuristic == Init /\ [][NextHeuristic]_vars

\* The commands: F12, a text and enter, typed in this order, over the
\* sessions of the process, with the shell's prompt, the end of the stream and
\* the teardown.
CommandWords ==
    {<<" ", "s", "t", "o", "p", " ">>, <<"e", "x", "i", "t">>, <<"q", "u", "i", "t">>,
     <<"h", "e", "l", "p">>, <<"?">>, <<"s", "t", "a", "t", "u", "s">>,
     <<"c", "l", "e", "a", "r">>, <<"l", "s">>}

NextCommand ==
    \/ SpawnSolo(MaxCalls)
    \/ DestroyWell
    \/ \E k \in Calls : StreamEnd(k)
    \/ used.chunks < MaxPrompts /\ \E k \in Calls : StreamData(k, PromptChunk)
    \/ used.keys < MaxKeys /\ used.keys % 3 = 0 /\ Keyboard(F12)
    \/ used.keys < MaxKeys /\ used.keys % 3 = 1 /\ \E w \in CommandWords : Keyboard(w)
    \/ used.keys < MaxKeys /\ used.keys % 3 = 2 /\ Keyboard(<<"\r">>)

SpecCommand == Init /\ [][NextCommand]_vars

\* The async block over the sessions of the process: its timers, the chunks
\* that signal readiness or not, the end of the stream and the teardown.
GeometryChunks == {PromptChunk, ShortChunk}

NextGeometry ==
    \/ SpawnSolo(MaxCalls)
    \/ DestroyWell
    \/ IifeSteps
    \/ \E k \in Calls : StreamEnd(k)
    \/ used.chunks < MaxChunks /\ \E k \in Calls, c \in GeometryChunks : StreamData(k, c)

SpecGeometry == Init /\ [][NextGeometry]_vars

\* Spawning during a teardown: the interrupt key and the 'end' of the stream
\* it ends, the teardown of each, and a spawn invoked whenever the session is
\* idle and no other spawn is in flight.
NextLate ==
    \/ \E k \in Calls :
          /\ IsReady(This)
          /\ \A j \in Calls : call[j].pc \in {"idle", "awaitReady", "done"}
          /\ Spawn(k, NoImage)
    \/ \E k \in Calls : PingDone(k, TRUE)
    \/ \E k \in Calls : PullDone(k, TRUE)
    \/ \E k \in Calls : CreateDone(k, TRUE)
    \/ \E k \in Calls : StartDone(k, TRUE)
    \/ \E k \in Calls : AttachDone(k, TRUE)
    \/ DestroyWell
    \/ \E k \in Calls : StreamEnd(k)
    \/ nIntr < MaxSessions /\ Keyboard(<<ETX>>)

SpecLate == Init /\ [][NextLate]_vars

\* what the program and the runtime do by themselves: timers expire, awaited
\* calls are answered, resolved promises resume their awaiters
Internal ==
    \/ IifeSteps
    \/ DestroyWell
    \/ \E k \in Calls : PingDone(k, TRUE) \/ PullDone(k, TRUE) \/ CreateDone(k, TRUE)
    \/ \E k \in Calls : StartDone(k, TRUE) \/ AttachDone(k, TRUE) \/ SkillReady(k)

\* SpecReady where no timer, answer or resumption is withheld for ever; the
\* shell may stay silent
LiveReady == SpecReady /\ WF_vars(Internal)

(***************************************************************************)
(* The output buffer.                                                      *)
(***************************************************************************)
\* C1: after any chunks, CLEAR commands and resets the buffer holds at most
\* 10,000 characters
C1_BufferWithinCeiling == Len(buffer) <= BufferCeiling

\* a single chunk of more than 10,000 characters was appended and cut
C1_Witness == used.chunks = 1 /\ echoed = 1 /\ Len(buffer) = BufferKeep

\* a chunk of output whose append takes the buffer over the ceiling is delivered
Overflows(k, c) ==
    /\ used'.chunks = used.chunks + 1
    /\ StreamData(k, c)
    /\ ~IsMetadata[c]
    /\ Len(buffer) + Len(c) > BufferCeiling

\* C2 as stated: the buffer after the append is the last 5,000 characters of
\* the buffer before it, followed by the whole chunk
C2_CutThenAppend ==
    [][\A k \in Calls, c \in Chunks :
          Overflows(k, c) => buffer' = SliceLast(buffer, BufferKeep) \o c]_vars

\* C2: when an append takes the buffer over 10,000 characters, the buffer
\* after it is the last 5,000 characters of the buffer before it followed by
\* the chunk
C2_AppendThenCut ==
    [][\A k \in Calls, c \in Chunks :
          Overflows(k, c) => buffer' = SliceLast(buffer \o c, BufferKeep)]_vars

\* the third chunk overflowed a buffer of 10,000: what is kept ends the old
\* buffer and holds the whole chunk
C2_Witness ==
    /\ used.chunks = 3
    /\ Len(buffer) = BufferKeep
    /\ buffer[1] = "b"
    /\ buffer[BufferKeep] = "a"

\* C5: a chunk classified as runtime metadata is not echoed, leaves the
\* buffer as it was and does not fire the readiness latch
C5_MetadataDropped ==
    [][\A k \in Calls, c \in Chunks :
          (used'.chunks = used.chunks + 1 /\ IsMetadata[c] /\ StreamData(k, c))
              => UNCHANGED <<buffer, echoed, fires, readyResolve, isFirstData>>]_vars

\* the metadata chunk that holds 'root@' was delivered to a session whose
\* latch is not fired: nothing was echoed and the latch is still not fired
C5_Witness ==
    /\ used.chunks = 1
    /\ echoed = 0
    /\ buffer = <<>>
    /\ \E k \in Calls : streams[k] = "open" /\ ~Resolved(call[k].awaited)
    /\ \A c \in Chunks \ {MetaPromptChunk} : ~IsMetadata[c]
    /\ IsDockerMetadata(MetaPromptChunk) /\ HasPrompt(MetaPromptChunk)

(***************************************************************************)
(* The readiness latch.                                                    *)
(***************************************************************************)
\* C3: the resolve function of a readiness promise is called at most once,
\* whatever chunks arrive and whenever the fallback runs
C3_LatchFiresOnce == \A p \in DOMAIN fires : fires[p] <= 1

\* two chunks that signal readiness arrived in the first session and the
\* fallback of its async block ran: the latch was fired once
C3_Witness ==
    /\ used.chunks = 2
    /\ buffer = PromptChunk \o OutputChunk
    /\ IsReadySignal[PromptChunk] /\ IsReadySignal[OutputChunk]
    /\ iife[1].pc = "done"
    /\ fires = <<1>>

\* C4: the caller that awaits ready() on an attached session is released: the
\* latch is fired (by the fallback when no chunk signals readiness) unless
\* the session is over first
C4_SilentShellReleased ==
    \A k \in Calls :
        (call[k].pc = "awaitReady" /\ Live(k))
            ~> (Resolved(call[k].awaited) \/ ~Live(k))

(***************************************************************************)
(* Stopping.                                                               *)
(***************************************************************************)
\* C6: when stop() was invoked on a live session, destroyContainer() is
\* called at most once for its container and the handlers of its stream
\* reset the state at most once
C6_OneDestroyOneReset ==
    \A p \in stopped :
        nIntr = 0 =>
            /\ resets[p[1]] <= 1
            /\ p[2] # NoContainer => destroys[p[2]] <= 1

\* spawn call k is between its acceptance and its return to the skill
InProgress(k) == call[k].pc \in {"ping", "pull", "create", "start", "attach", "destroy"}

\* no spawn and no teardown is in progress and the stream of p has ended
Settled(p) ==
    /\ tasks = {}
    /\ \A k \in Calls : ~InProgress(k)
    /\ streams[p[1]] = "ended"

\* C8: once stop() was invoked on an attached session and the runtime has
\* delivered 'end' and answered every call, the container of that session
\* is removed
C8_StoppedSessionRemoved ==
    \A p \in stopped :
        (used.faults = 0 /\ p[2] # NoContainer /\ Settled(p)) => containers[p[2]] = "removed"

(***************************************************************************)
(* Spawning.                                                               *)
(***************************************************************************)
\* C7: spawn() invoked while a spawn, a session or a teardown is in progress
\* is rejected with the already-active error and changes nothing
C7_SpawnWhileActiveRejected ==
    [][\A k \in Calls, img \in {NoImage, OtherImage} :
          (call'[k].pc # call[k].pc /\ Spawn(k, img) /\ ~Quiet)
              => /\ call'[k].result = AlreadyActive
                 /\ UNCHANGED <<imageName, container, ttyStream, containers, status>>
                 /\ \A j \in Calls \ {k} : call'[j] = call[j]]_vars

\* C9: a spawn whose connectivity probe failed has returned an error to its
\* caller as soon as its cleanup is over: it is not awaiting readiness and
\* it has not reported success
C9_UnreachableRuntimeReported ==
    \A k \in Calls :
        (call[k].failedAt = "ping" /\ call[k].pc # "destroy")
            => (call[k].pc = "done" /\ call[k].result \notin {"none", Spawned})

\* a step of spawn k has failed
Failed(k) == call[k].failedAt \in {"ping", "pull", "create", "start", "attach"}

C11_HandlesPaired == (container = NoContainer) <=> (ttyStream = NoStream)

\* C12: in every reachable state every container the session created is the
\* one the container handle refers to, or destroyContainer() has been called
\* for it; so at most one created container has had no destroy issued
C12_CreatedHeldOrDestroyed ==
    \A c \in Calls :
        containers[c] # "none" => container = c \/ destroys[c] > 0

\* the handlers that have a destroyContainer() call in flight
Destroyers == {t.id : t \in tasks}

\* C13: while a stream is attached, a destroyContainer() call is started
\* only by the stream's 'end' and 'error' handlers: stop(), the interrupt
\* byte and the signal cleanup start none
C13_DestroyOnlyByStreamHandlers ==
    [][\A id \in Destroyers' \ Destroyers :
          ttyStream # NoStream => id[1] \in {"end", "error"}]_vars

\* the text each listener has accumulated
Accumulated == [i \in DOMAIN listeners |-> listeners[i].commandBuffer]

\* C14: the interrupt byte (3) is handled before any other classification:
\* in pass-through as in command mode, with or without pending text, it ends
\* the stream, restores the terminal and destroys the container if the handle
\* is set (else the session is idle at once); the byte is neither written to
\* the stream nor appended to the accumulated text; and the session is idle
\* eventually
C14_InterruptEndsSession ==
    /\ [][Keyboard(<<ETX>>) =>
            /\ ttyStream # NoStream => ttyStream \in writeEnded'
            /\ ~rawMode' /\ ~stdinFlowing'
            /\ IF container # NoContainer
               THEN \E id \in Destroyers' \ Destroyers : id[1] = "intr"
               ELSE IsReady(This)'
            /\ written' = written
            /\ Accumulated' = Accumulated]_vars
    /\ (\E id \in Destroyers : id[1] = "intr") ~> IsReady(This)

\* the interrupt byte came in command mode with pending text; the session it
\* ended is idle and its container is removed
C14_Witness ==
    /\ nIntr > 0
    /\ IsReady(This)
    /\ \E i \in DOMAIN listeners :
          listeners[i].isInCommandMode /\ listeners[i].commandBuffer = <<"x">>
    /\ containers[1] = "removed"

\* the keys of the STATUS command: F12, the six letters, enter
StatusKeys == SubSeq(StatusScript, 1, 8)

\* sequence s ends with sequence t
EndsWith(s, t) ==
    Len(s) >= Len(t) /\ SubSeq(s, Len(s) - Len(t) + 1, Len(s)) = t

\* stop() is not called by the step
NoStop ==
    shouldStop' = shouldStop /\ writeEnded' = writeEnded /\ stopTimers' = stopTimers

\* C15: the keys F12, 'S', 'T', 'A', 'T', 'U', 'S', enter typed in a session
\* produce exactly one STATUS report, with the buffer's size, and nothing
\* else: no key of the sequence is written to the stream, stop() is not
\* called, the buffer is unchanged, no other command is handled and no other
\* status is shown; after the enter no listener is in command mode and the
\* byte that follows is written to the stream
C15_StatusReportOnly ==
    [][\A data \in Range(StatusScript) :
          /\ Keyboard(data) /\ (\E n \in 1..7 : EndsWith(typed', SubSeq(StatusKeys, 1, n)))
                => /\ written' = written /\ buffer' = buffer /\ NoStop
                   /\ handled' = handled /\ status' = status
          /\ Keyboard(data) /\ EndsWith(typed', StatusKeys)
                => /\ written' = written /\ buffer' = buffer /\ NoStop
                   /\ handled' = Append(handled, <<"S", "T", "A", "T", "U", "S">>)
                   /\ status' = Message("Container running. Buffer size. TTY active.",
                                        Len(buffer))
                   /\ \A i \in DOMAIN listeners' : ~listeners'[i].isInCommandMode
          /\ Keyboard(data) /\ EndsWith(typed, StatusKeys) /\ data = <<"x">>
                /\ ttyStream # NoStream
                => CopiesIn(data, written'[ttyStream]) > CopiesIn(data, written[ttyStream])]_vars

\* every listener is out of command mode with nothing accumulated
AllPassThrough(ls) ==
    \A i \in DOMAIN ls : ~ls[i].isInCommandMode /\ ls[i].commandBuffer = <<>>

\* C16 as stated: F12 followed at once by enter cancels silently: no stop, no
\* buffer clear, no status message displayed, command mode left with nothing
\* accumulated
C16_CancelSilent ==
    [][Keyboard(<<"\r">>) /\ EndsWith(typed', <<F12, <<"\r">>>>)
          => /\ NoStop /\ buffer' = buffer
             /\ status' = status
             /\ AllPassThrough(listeners')]_vars

\* C16 as the code has it: F12 followed at once by enter cancels with the
\* message 'Command mode cancelled.' on the status line: no stop, no buffer
\* clear, nothing written to the stream, command mode left with nothing
\* accumulated
C16_CancelWithMessage ==
    [][Keyboard(<<"\r">>) /\ EndsWith(typed', <<F12, <<"\r">>>>)
          => /\ NoStop /\ buffer' = buffer /\ written' = written
             /\ status' = Message("Command mode cancelled.", 0)
             /\ AllPassThrough(listeners')]_vars

\* F12 then enter were typed in an attached session
C16_Witness ==
    /\ EndsWith(typed, <<F12, <<"\r">>>>)
    /\ ttyStream # NoStream
    /\ status = Message("Command mode cancelled.", 0)
    /\ AllPassThrough(listeners)

\* C17: in command mode a backspace removes exactly the last accumulated
\* character when there is one and leaves command mode when there is none;
\* so F12, one printable character, backspace, backspace leave command mode
\* inactive, and from the F12 to the second backspace no command is handled
\* and nothing is written to the stream
C17_BackspaceEditsThenExits ==
    [][/\ Keyboard(<<DEL>>) =>
            \A i \in DOMAIN listeners :
                LET l == listeners[i]
                    text == l.commandBuffer
                IN  l.isInCommandMode =>
                        IF text # <<>>
                        THEN /\ listeners'[i].isInCommandMode
                             /\ listeners'[i].commandBuffer \o <<text[Len(text)]>> = text
                        ELSE /\ ~listeners'[i].isInCommandMode
                             /\ listeners'[i].commandBuffer = <<>>
       /\ \A c \in {<<"x">>, <<"y">>} :
            LET keys == <<F12, c, <<DEL>>, <<DEL>>>>
            IN  /\ \A n \in 1..4 :
                      (\E data \in KeyInputs : Keyboard(data))
                          /\ EndsWith(typed', SubSeq(keys, 1, n))
                      => handled' = handled /\ written' = written
                /\ Keyboard(<<DEL>>) /\ EndsWith(typed', keys)
                      => AllPassThrough(listeners')]_vars

\* F12, 'x', backspace, backspace were typed in an attached session: no
\* listener is in command mode, no command was handled, nothing was written
C17_Witness ==
    /\ EndsWith(typed, <<F12, <<"x">>, <<DEL>>, <<DEL>>>>)
    /\ ttyStream # NoStream
    /\ AllPassThrough(listeners)
    /\ handled = <<>>
    /\ written[ttyStream] = EmptyBag

\* C18: however many termination signals and uncaught failures arrive, also
\* while the cleanup is in progress, the body of the cleanup runs at most
\* once and makes at most one destroyContainer() call
C18_CleanupOnce ==
    /\ cleanups <= 1
    /\ Cardinality({t \in tasks : t.id[1] = "signal"}) <= 1

\* a second signal arrived while the destroy of the first one's cleanup was
\* in progress
C18_Witness ==
    /\ used.signals = 2
    /\ cleanups = 1
    /\ \E t \in tasks : t.id[1] = "signal" /\ t.pc = "remove"

\* C19: sendInput(text) writes text to the stream handle when one is held
\* and does nothing otherwise: with no stream attached nothing is written;
\* in both cases the container handle, the stream handle, the buffer,
\* shouldStop and the readiness latch are unchanged
C19_SendInputWritesOrNothing ==
    [][\A ttyInput \in TTYInputs :
          SendTTYInput(ttyInput) /\ Trim(ttyInput) # <<>>
          => /\ IF ttyStream = NoStream
                THEN written' = written
                ELSE written' = [written EXCEPT ![ttyStream] =
                                    @ (+) SetToBag({ParseCarriageReturn(ttyInput)})]
             /\ UNCHANGED <<container, ttyStream, buffer, shouldStop, readyPromise,
                            readyResolve, fires>>]_vars

\* sendInput() was called with no stream attached: nothing was written and
\* the session is as it was
C19_Witness ==
    /\ used.inputs = 1
    /\ status = Message("Running command", 0)
    /\ IsReady(This)
    /\ \A k \in Calls : written[k] = EmptyBag
    /\ buffer = <<>> /\ ~shouldStop /\ readyResolve = 1

\* C20: whenever the session is idle (container handle and stream handle
\* both cleared) the buffer read by the buffer getter is the empty string
C20_IdleBufferEmpty == IsReady(This) => buffer = <<>>

\* C21: in destroyContainer() a stop() answered 'not modified' (the
\* container is already stopped) is followed by the remove() of that
\* container; a remove() answered 'removal in progress' ends the call like a
\* successful one, with no failure reported; a call in flight ends only by
\* returning to its caller, and the caller's reset follows
C21_IdempotentAnswersSucceed ==
    [][\A t \in tasks :
          /\ DestroyStop(t, "answer") /\ containers[t.tgt] \in {"created", "stopped"}
                => \E u \in tasks' : u.id = t.id /\ u.pc = "remove" /\ u.tgt = t.tgt
          /\ DestroyRemove(t, "conflict")
                => /\ \E u \in tasks' : u.id = t.id /\ u.pc = "delay"
                   /\ used'.faults = used.faults
                   /\ status' = status
          /\ t.id \notin Destroyers' => DestroyDone(t)
          /\ DestroyDone(t) /\ t.id[1] # "signal" => IsReady(This)']_vars

\* the interrupt key and the 'end' handler both destroy the container, the
\* runtime never failing: the container was stopped once, so one stop() was
\* answered 'not modified'; one remove() was answered 'removal in progress'
\* while the other is in flight
C21_Witness ==
    /\ used.faults = 0
    /\ \E t, u \in tasks :
          /\ t.pc = "delay" /\ u.pc = "remove"
          /\ containers[u.tgt] = "stopped"
          /\ container = u.tgt

\* the delivery of chunk c fires the latch of the session
C22_Fires(k, c) ==
    /\ StreamData(k, c)
    /\ readyResolve' = NoResolve
    /\ fires' = [fires EXCEPT ![readyResolve] = @ + 1]

\* C22 as stated: a real-output chunk fires the latch not yet fired exactly
\* when it holds a prompt fragment, or has more than 10 characters that are
\* not whitespace and holds a line break
C22_FiresOnDenseText ==
    [][\A k \in Calls, c \in HeuristicInputs :
          (StreamData(k, c) /\ ~IsDockerMetadata(c) /\ readyResolve # NoResolve)
              => (C22_Fires(k, c) <=>
                    \/ HasPrompt(c)
                    \/ /\ Cardinality({i \in 1..Len(c) : c[i] \notin Whitespace}) > SubstantialLen
                       /\ Includes(c, <<"\n">>))]_vars

\* C22: a real-output chunk fires the latch not yet fired exactly when it
\* holds a prompt fragment, or is longer than 10 characters once the
\* whitespace at its two ends is removed and holds a line feed; any other
\* chunk leaves the latch as it was
C22_FiresOnTrimmedText ==
    [][\A k \in Calls, c \in HeuristicInputs :
          (StreamData(k, c) /\ ~IsDockerMetadata(c) /\ readyResolve # NoResolve)
              => IF \/ HasPrompt(c)
                    \/ Len(Trim(c)) > SubstantialLen /\ Includes(c, <<"\n">>)
                 THEN C22_Fires(k, c)
                 ELSE UNCHANGED <<readyResolve, fires>>]_vars

\* 'hi' did not fire the latch, 'hello world' and a line feed (10 characters
\* that are not whitespace, 11 between its ends) then fired it
C22_Witness ==
    /\ used.chunks = 2
    /\ buffer = ShortChunk \o OutputChunk
    /\ readyResolve = NoResolve
    /\ \E k \in Calls : streams[k] = "open" /\ fires[call[k].awaited] = 1

\* the 'end' or the 'error' event of stream k
C23_Event(k) == StreamEnd(k) \/ StreamError(k)

\* C23: the 'end' and the 'error' handler leave the status line cleared (or
\* showing the destroy they started) and the terminal restored; with a
\* container held they start one destroyContainer() call and do not reset,
\* with none they reset at once; and a handler of stream k resets only in
\* such a step or when the destroyContainer() call it awaits returns
C23_TeardownInOrder ==
    [][\A k \in Calls :
          /\ C23_Event(k) =>
                /\ ~rawMode' /\ ~stdinFlowing'
                /\ IF container # NoContainer
                   THEN /\ status' = Message("Destroying container...", 0)
                        /\ \E t \in tasks' \ tasks : t.id[2] = k /\ t.pc = "ping"
                        /\ destroys'[container] = destroys[container] + 1
                        /\ resets' = resets
                        /\ container' = container /\ ttyStream' = ttyStream
                   ELSE /\ status' = NoStatus
                        /\ tasks' = tasks /\ destroys' = destroys
                        /\ resets'[k] = resets[k] + 1
                        /\ IsReady(This)'
          /\ resets'[k] # resets[k] =>
                \/ C23_Event(k) /\ container = NoContainer
                \/ \E t \in tasks : /\ t.id \in {<<"end", k>>, <<"error", k>>}
                                     /\ t.pc = "delay"
                                     /\ DestroyDone(t)
                                     /\ resets'[k] = resets[k] + 1]_vars

\* the 'end' handler's destroyContainer() failed at its stop() and returned,
\* and the handler then reset the session: the container is still running
C23_Witness ==
    /\ IsReady(This) /\ tasks = {}
    /\ nIntr = 0 /\ errored = {}
    /\ \E k \in Calls : /\ streams[k] = "ended" /\ resets[k] = 1
                         /\ destroys[call[k].tgt] = 1
                         /\ containers[call[k].tgt] = "running"

\* C24: the text submitted in command mode, trimmed and upper-cased, is
\* handled exactly once and maps to one action: STOP, EXIT and QUIT call
\* stop() once; HELP and ? only show the help; STATUS only shows the buffer's
\* size; CLEAR empties the buffer and leaves the session as it was; any other
\* text only shows 'Unknown command'; nothing is written to the stream and
\* after the enter no listener is in command mode or holds text
C24_OneActionPerSubmission ==
    [][\A w \in CommandWords :
          Keyboard(<<"\r">>) /\ EndsWith(typed', <<F12, w, <<"\r">>>>)
              => LET cmd == ToUpperCase(Trim(w))
                 IN  /\ handled' = Append(handled, cmd)
                     /\ AllPassThrough(listeners')
                     /\ written' = written
                     /\ container' = container /\ ttyStream' = ttyStream
                     /\ readyResolve' = readyResolve /\ fires' = fires
                     /\ CASE cmd \in {<<"S", "T", "O", "P">>, <<"E", "X", "I", "T">>,
                                       <<"Q", "U", "I", "T">>} ->
                                /\ shouldStop' /\ stopTimers' = stopTimers + 1
                                /\ ttyStream # NoStream => ttyStream \in writeEnded'
                                /\ buffer' = buffer
                          [] cmd \in {<<"H", "E", "L", "P">>, <<"?">>} ->
                                /\ NoStop /\ buffer' = buffer
                                /\ status' = Message("Commands: STOP/EXIT/QUIT - Stop container, HELP/? - Show help. Use F12 to enter command mode.", 0)
                          [] cmd = <<"S", "T", "A", "T", "U", "S">> ->
                                /\ NoStop /\ buffer' = buffer
                                /\ status' = Message("Container running. Buffer size. TTY active.",
                                                     Len(buffer))
                          [] cmd = <<"C", "L", "E", "A", "R">> ->
                                /\ NoStop /\ buffer' = <<>>
                                /\ status' = Message("Buffer cleared.", 0)
                          [] OTHER ->
                                /\ NoStop /\ buffer' = buffer
                                /\ status' = Message("Unknown command. Available: STOP, HELP, STATUS, CLEAR", 0)]_vars

\* ' stop ' was submitted in the second session of the process: both
\* listeners handled STOP
C24_Witness ==
    /\ handled = <<<<"S", "T", "O", "P">>, <<"S", "T", "O", "P">>>>
    /\ Len(listeners) = 2
    /\ stopTimers = 2

\* the step is a resetState()
C25_IsReset == Len(fires') = Len(fires) + 1

\* the step handles the CLEAR command
C25_IsClear ==
    /\ Len(handled') > Len(handled)
    /\ handled'[Len(handled')] = <<"C", "L", "E", "A", "R">>

\* C25: the buffer changes only by a reset or a CLEAR command, which empty
\* it, and by the delivery of one real-output chunk, which is echoed and put
\* whole at the end of what the buffer held, the result being cut to its
\* last 5,000 characters when over 10,000: so between resets and CLEAR
\* commands the buffer is the end of the chunks received, in arrival order,
\* each handled in one step
C25_BufferExtendsInOrder ==
    [][/\ buffer' # buffer =>
            \/ (C25_IsReset \/ C25_IsClear) /\ buffer' = <<>>
            \/ \E k \in Calls, c \in BufferInputs :
                  /\ StreamData(k, c) /\ ~IsMetadata[c]
                  /\ echoed' = echoed + 1
                  /\ LET joined == buffer \o c
                     IN  /\ buffer' = SliceLast(joined, Len(buffer'))
                         /\ Len(buffer') = IF Len(joined) > BufferCeiling
                                           THEN BufferKeep ELSE Len(joined)
       /\ \A k \in Calls, c \in BufferInputs :
            StreamData(k, c) /\ ~IsMetadata[c] /\ Len(c) <= BufferKeep
                => EndsWith(buffer', c)]_vars

\* 4,000 'a', 6,000 'b' and the prompt were received since the last reset:
\* the buffer, cut at the prompt, is the end of the 'b' then the prompt
C25_Witness ==
    /\ used.chunks = 3
    /\ echoed = 3
    /\ Len(buffer) = BufferKeep
    /\ EndsWith(buffer, PromptChunk)
    /\ \A i \in {1, BufferKeep - Len(PromptChunk)} : buffer[i] = "b"

\* the number of times the i-th command of the geometry sequence was written
\* to stream s
C26_Sent(w, s, i) == CopiesIn(GeometryInputs[i], w[s])

\* a chunk that satisfies the readiness test was received since the reset
\* (no chunk of GeometryChunks is cut or cleared from the buffer)
C26_SignalReceived ==
    \E c \in GeometryChunks : IsReadySignal[c] /\ Includes(buffer, c)

\* C26: the geometry sequence is written to the stream of a session at most
\* once, its commands in their order, and its first command is not written
\* before a chunk of the session has satisfied the readiness test or the
\* fallback timer of the session's async block has run
C26_GeometryOnceWhenReady ==
    /\ [](\A s \in Calls :
            /\ C26_Sent(written, s, 1) <= 1
            /\ C26_Sent(written, s, 2) <= C26_Sent(written, s, 1)
            /\ C26_Sent(written, s, 3) <= C26_Sent(written, s, 2)
            /\ C26_Sent(written, s, 5) <= C26_Sent(written, s, 3)
            /\ C26_Sent(written, s, 4) <= C26_Sent(written, s, 3) + C26_Sent(written, s, 5))
    /\ [][\A s \in Calls :
            C26_Sent(written', s, 1) > C26_Sent(written, s, 1)
                => C26_SignalReceived \/ iife[s].pc = "done"]_vars

\* the fallback timer of the first session's async block ran in the second
\* session, which has received nothing: its geometry sequence is under way
C26_Witness ==
    /\ ttyStream = 2
    /\ buffer = <<>>
    /\ iife[1].pc = "done"
    /\ C26_Sent(written, 2, 1) = 1
    /\ fires[readyPromise] = 1

\* C27: the cleanup a signal or an uncaught failure starts leaves the
\* terminal restored when it issues its destroyContainer() call, issues the
\* call only when a container handle is held and ends the process at once
\* when none is; and the process ends eventually, also when the calls of the
\* destroy fail
C27_CleanupTerminates ==
    /\ [][\A event \in Signals \cup Failures :
            Signal(event) /\ ~isCleaningUp
                => /\ ~rawMode' /\ ~stdinFlowing'
                   /\ isCleaningUp'
                   /\ IF container # NoContainer
                      THEN /\ \E t \in tasks' \ tasks : t.id[1] = "signal" /\ t.pc = "ping"
                           /\ destroys'[container] = destroys[container] + 1
                           /\ ~exited'
                      ELSE /\ tasks' = tasks /\ destroys' = destroys
                           /\ exited']_vars
    /\ isCleaningUp ~> exited

\* a signal came in an attached session, the runtime did not answer the
\* cleanup's ping, and the process has ended with the container running
C27_Witness ==
    /\ exited /\ cleanups = 1
    /\ used.faults = 1
    /\ container # NoContainer /\ containers[container] = "running"
    /\ destroys[container] = 1

\* C28: the latch of the idle session is unfired, so that it is unfired when
\* the next spawn is accepted, and a latch is fired only by a chunk of the
\* stream the session holds or by the fallback timer of that session's
\* async block
C28_LatchFiredByOwnSession ==
    /\ [](IsReady(This) => fires[readyPromise] = 0 /\ readyResolve = readyPromise)
    /\ [][\A p \in DOMAIN fires :
            fires'[p] > fires[p]
                => \E k \in Calls :
                      /\ ttyStream = k
                      /\ \/ IifeFallback(k)
                         \/ \E c \in GeometryChunks : StreamData(k, c)]_vars

\* the session is over and reset, nothing was spawned since, and the
\* fallback timer of its async block has fired the latch of the idle session
C28_Witness ==
    /\ IsReady(This) /\ tasks = {}
    /\ iife[1].pc = "done"
    /\ call[2].pc = "idle"
    /\ fires[readyPromise] = 1 /\ readyResolve = NoResolve

\* C29: the teardown the 'end' or 'error' handler of stream k started acts
\* on session k only: the container it stops and removes is the one created
\* by spawn k, and its final reset clears no handle of another session
C29_TeardownOfOwnSession ==
    [][\A t \in tasks :
          t.id[1] \in {"end", "error"} =>
              /\ (DestroyStop(t, "answer") \/ DestroyRemove(t, "answer")) => t.tgt = t.id[2]
              /\ DestroyDone(t) => /\ container \in {NoContainer, t.id[2]}
                                   /\ ttyStream \in {NoStream, t.id[2]}]_vars

\* the 'end' handler of the first session started its teardown while that
\* session held its container, as the interrupt had; it has since stopped
\* and removed the container of the second session, which still holds it
C29_Witness ==
    /\ container = 2 /\ ttyStream = 2
    /\ containers[2] = "removed"
    /\ destroys = <<2, 0>>
    /\ \E t \in tasks : t.id = <<"end", 1>> /\ t.pc = "delay"

\* C30: a key other than the interrupt byte and F12, typed while the
\* session's listener is not in command mode, is written once to the stream
\* the session holds; a key typed while it is in command mode is not written
C30_KeyWrittenOnce ==
    [][\A data \in Range(StatusScript) \ {F12} :
          Keyboard(data) /\ ttyStream # NoStream
              => IF listeners[Len(listeners)].isInCommandMode
                 THEN written' = written
                 ELSE written' = [written EXCEPT ![ttyStream] = @ (+) SetToBag({data})]]_vars

\* 'x' was typed once in the second session, outside command mode, and is
\* twice in what was written to its stream
C30_Witness ==
    /\ ttyStream = 2
    /\ typed = <<<<"x">>>>
    /\ Len(listeners) = 2
    /\ CopiesIn(<<"x">>, written[2]) = 2

\* C31: whenever the session is idle (container handle and stream handle
\* both cleared) the host terminal is not in raw mode
C31_IdleTerminalCooked == IsReady(This) => ~rawMode

\* the 'end' handler of the first session has reset the executor while the
\* second session was attached: the session is idle, its stream is open and
\* the terminal is in raw mode
C31_Witness ==
    /\ IsReady(This) /\ tasks = {}
    /\ rawMode /\ stdinFlowing
    /\ streams[2] = "open"
    /\ resets[1] = 1

====
